---- MODULE Spec2Model ----
(***************************************************************************)
(* Model of galileo-egui/src/egui_map.rs: the EguiMap widget, its           *)
(* EguiMapState and the MapStateMessenger.                                  *)
(*                                                                          *)
(* The frame thread runs show_ui (binder, render, capture) as a sequence of *)
(* steps; the steps are cut where the shared atomic flag requires_redraw is *)
(* accessed, so that request_redraw calls of background threads interleave  *)
(* with a frame exactly where they can in the program.                      *)
(*                                                                          *)
(* Scales (f32 pixels_per_point) are fixed-point numbers with OnePointZero  *)
(* units per 1.0; a physical size is logical * scale in those units, and    *)
(* the cast `as u32` is the truncating division by OnePointZero.            *)
(* Frames whose truncated physical size has a zero side are outside the     *)
(* model.                                                                   *)
(***************************************************************************)
EXTENDS Integers, Sequences, FiniteSets, TLC

\* ---------------------------------------------------------------- bounds
MaxSide == 2          \* logical sides measured by the host: 1..MaxSide
MaxTextures == 3      \* texture ids the host renderer hands out: 0..MaxTextures-1
MaxCount == 2         \* saturation of the history counters
NumThreads == 2       \* background threads holding a messenger clone
MaxBatch == 2         \* host events per frame
MaxLayers == 3        \* layers of the map

\* ------------------------------------------------------------- constants
OnePointZero == 10000 \* the f32 1.0 of `pixels_per_point > 1.0`

Scales == {5000, 10000, 15000, 20000}
Sides == 1..MaxSide
LogicalSizes == Sides \X Sides
Threads == 1..NumThreads
Positions == {"A", "B"}
NoPosition == "none"
Resolutions == {1, 2}
NoImage == [id |-> -1, size |-> <<0, 0>>]
RectOrigins == {<<0, 0>>, <<10, 10>>}

Sat(n) == IF n > MaxCount THEN MaxCount ELSE n

\* ------------------------------------------------------------------ build
VARIABLE wasm32       \* the build's target_arch is wasm32

\* ------------------------------------------------------------ host events
\* egui::Event samples; wheel deltas are in units of 0.00001.
PointerButtonEv(b, p) ==
    [kind |-> "PointerButton", button |-> b, pressed |-> p, x |-> 0, y |-> 0,
     unit |-> "none"]
PointerMovedEv(px, py) ==
    [kind |-> "PointerMoved", button |-> "none", pressed |-> FALSE, x |-> px, y |-> py,
     unit |-> "none"]
MouseWheelUnitEv(dx, dy, u) ==
    [kind |-> "MouseWheel", button |-> "none", pressed |-> FALSE, x |-> dx, y |-> dy,
     unit |-> u]
MouseWheelEv(dx, dy) == MouseWheelUnitEv(dx, dy, "Point")
OtherEv(k) ==
    [kind |-> k, button |-> "none", pressed |-> FALSE, x |-> 0, y |-> 0,
     unit |-> "none"]
KeyEv == OtherEv("Key")

HostEvents ==
    { PointerButtonEv("Primary", TRUE), PointerButtonEv("Secondary", FALSE),
      PointerMovedEv(100, 50), MouseWheelEv(5, 0), MouseWheelEv(0, 500000),
      KeyEv }

\* One event of every kind, button, wheel unit and wheel magnitude class.
\* No wheel sample sits exactly on the threshold, where f32 rounding decides.
TableEvents ==
    {PointerButtonEv(b, p) :
        b \in {"Primary", "Secondary", "Middle", "Extra1", "Extra2"}, p \in BOOLEAN}
    \cup {PointerMovedEv(100, 50), PointerMovedEv(0, 0)}
    \cup {MouseWheelUnitEv(d[1], d[2], u) :
            d \in {<<5, 0>>, <<0, 500000>>, <<0, -500000>>, <<500000, 0>>,
                   <<0, 9>>, <<0, -9>>, <<0, 1000>>, <<0, 50>>},
            u \in {"Point", "Line", "Page"}}
    \cup {OtherEv(k) : k \in {"Key", "Text", "PointerGone", "Zoom"}}

RECURSIVE SeqsUpTo(_, _)
SeqsUpTo(S, n) ==
    IF n = 0 THEN {<<>>}
    ELSE LET shorter == SeqsUpTo(S, n - 1)
         IN shorter \cup {Append(q, e) : q \in shorter, e \in S}

Batches == SeqsUpTo(HostEvents, MaxBatch)

NoEvent == [kind |-> "None", button |-> "none", x |-> 0, y |-> 0]

Abs(n) == IF n < 0 THEN -n ELSE n

\* 0.0001 in wheel units
NoiseThreshold == 10

\* The wasm32 divisors of the wheel delta.  A zoom is carried as
\* zoom * PointDivisor in wheel units, so that the quotients are integers.
PointDivisor == 120
LineDivisor == 6

WheelDivisor(unit) ==
    CASE unit = "Point" -> PointDivisor
      [] unit = "Line" -> LineDivisor
      [] OTHER -> 1

\* `let zoom = ...` of the MouseWheel arm, for the build at hand
WheelZoomHorizontal(event) ==
    IF wasm32 THEN event.x * (PointDivisor \div WheelDivisor(event.unit))
    ELSE event.x * PointDivisor

WheelZoom(event) ==
    IF wasm32 THEN event.y * (PointDivisor \div WheelDivisor(event.unit))
    ELSE event.y * PointDivisor

MouseButtonPrimaryOnly(button) ==
    CASE button = "Primary" -> "Left"
      [] OTHER -> "Other"

MouseButton(button) ==
    CASE button = "Primary" -> "Left"
      [] button = "Secondary" -> "Right"
      [] button = "Middle" -> "Middle"
      [] OTHER -> "Other"

convert_event(event, offset) ==
    CASE event.kind = "PointerButton" ->
            [kind |-> IF event.pressed THEN "ButtonPressed" ELSE "ButtonReleased",
             button |-> MouseButton(event.button), x |-> 0, y |-> 0]
      [] event.kind = "PointerMoved" ->
            [kind |-> "PointerMoved", button |-> "none",
             x |-> event.x + offset[1], y |-> event.y + offset[2]]
      [] event.kind = "MouseWheel" ->
            IF Abs(WheelZoom(event)) < NoiseThreshold * PointDivisor
            THEN NoEvent
            ELSE [kind |-> "Scroll", button |-> "none", x |-> 0, y |-> WheelZoom(event)]
      [] OTHER -> NoEvent

\* The raw events process_events hands to the event pipeline, in order.
RECURSIVE process_eventsReversed(_, _)
process_eventsReversed(events, offset) ==
    IF events = <<>> THEN <<>>
    ELSE LET raw == convert_event(Head(events), offset)
             rest == process_eventsReversed(Tail(events), offset)
         IN IF raw = NoEvent THEN rest ELSE rest \o <<raw>>

RECURSIVE process_events(_, _)
process_events(events, offset) ==
    IF events = <<>> THEN <<>>
    ELSE LET raw == convert_event(Head(events), offset)
             rest == process_events(Tail(events), offset)
         IN IF raw = NoEvent THEN rest ELSE <<raw>> \o rest

\* ------------------------------------------------------------ attributions
\* A layer's attribution() is None, a text, or a text with a URL.
NoAttribution == [text |-> "none", url |-> "none"]
Attributions == {[text |-> "osm", url |-> "https://osm"], [text |-> "local", url |-> "none"]}
NoOverlay == [shown |-> FALSE, items |-> <<>>]
Delimiter == [kind |-> "label", text |-> " | ", url |-> "none"]

collect_attributions(ls) == SelectSeq(ls, LAMBDA a : a # NoAttribution)

add_attribution_entry(attribution) ==
    IF attribution.url # "none"
    THEN [kind |-> "hyperlink", text |-> attribution.text, url |-> attribution.url]
    ELSE [kind |-> "label", text |-> attribution.text, url |-> "none"]

\* the loop of show_attributions, from the entry at hand on
RECURSIVE show_attributions_loop(_, _)
show_attributions_loop(attributions, is_first) ==
    IF attributions = <<>> THEN <<>>
    ELSE <<add_attribution_entry(Head(attributions))>>
         \o (IF ~is_first THEN <<Delimiter>> ELSE <<>>)
         \o show_attributions_loop(Tail(attributions), FALSE)

show_attributions(ls) == show_attributions_loop(collect_attributions(ls), TRUE)

\* lines 233-243 of render
AttributionOverlay(ls) ==
    IF collect_attributions(ls) # <<>>
    THEN [shown |-> TRUE, items |-> show_attributions(ls)]
    ELSE NoOverlay

\* the filter mode resize_map registers the texture with
FilterModeAtOrAbove(scale) == IF scale >= OnePointZero THEN "Linear" ELSE "Nearest"
FilterMode(scale) == IF scale > OnePointZero THEN "Linear" ELSE "Nearest"

\* ------------------------------------------------------------------ sizes
\* physical_size = logical_size * pixels_per_point (f32), in fixed point
PhysicalSize(logical, scale) == <<logical[1] * scale, logical[2] * scale>>

\* (logical_size.x * pixels_per_point) as u32
PhysicalU32(logical, scale) ==
    <<(logical[1] * scale) \div OnePointZero, (logical[2] * scale) \div OnePointZero>>

\* the mismatch test of render, against renderer.size().cast::<f32>()
SizeDiffers(physical, rsize) ==
    \/ physical[1] # rsize[1] * OnePointZero
    \/ physical[2] # rsize[2] * OnePointZero

\* ------------------------------------------------------------- the state
VARIABLES
    requires_redraw,      \* Arc<AtomicBool> shared with the messenger clones
    map_ready,
    texture_id,
    texture_view,         \* the texture generation the stored view refers to
    rendererSize,         \* renderer.size(), u32 pixels
    next_user_texture_id, \* the host renderer's id allocator
    registered,           \* texture ids registered with the host renderer
    map,                  \* [size, dpi, position, resolution]
    dragging,             \* event_processor.is_dragging()
    repaintPending,       \* host: a repaint has been requested
    extPos, extRes,       \* the application's position and resolution
    framePc,              \* position of the frame thread inside show_ui
    bindPos, bindRes,     \* EguiMap.position / .resolution is Some
    logical_size, pixels_per_point, renderer_size, \* locals of render
    took,                 \* result of the swap(false) of this frame
    msgPc,                \* position of each background request_redraw call
    reqs,                 \* history: request_redraw swaps since the last clear
    fired,                \* history: request_repaint calls of those requests
    stale,                \* history: calls whose swap preceded the last clear
    cleared,              \* history: some swap(false) has happened
    loadedUnready,        \* history: load_layers ran with map_ready false
    lastPass,             \* history: texture generation of the last render pass
    emitted,              \* history: the image painted by the last frame
    resized,              \* history: the current/last frame called resize_map
    repeat,               \* history: this frame measures what the last one resized for
    takes, draws,         \* history: swaps(false) and passes of this frame
    forwarded,            \* the raw events handed to the pipeline this frame
    filter_mode,          \* the filter the stored handle was registered with
    layers,               \* the attribution() of each layer of the map
    overlay,              \* the attribution overlay shown by the last render
    events_in, origin_in, hovered_in \* history: the host's input of this frame

vars == <<requires_redraw, map_ready, texture_id, texture_view, rendererSize,
          next_user_texture_id, registered, map, dragging,
          repaintPending, extPos, extRes, framePc, bindPos, bindRes,
          logical_size, pixels_per_point, renderer_size, took, msgPc, reqs,
          fired, stale, cleared, loadedUnready, lastPass, emitted, resized,
          repeat, takes, draws, forwarded, filter_mode, layers, overlay,
          events_in, origin_in, hovered_in, wasm32>>

gpuVars == <<texture_id, texture_view, rendererSize, next_user_texture_id, registered,
             filter_mode>>
envVars == <<wasm32, layers>>
inputVars == <<events_in, origin_in, hovered_in>>
binderVars == <<bindPos, bindRes>>
measureVars == <<logical_size, pixels_per_point, renderer_size>>

\* ------------------------------------------------- MapStateMessenger
\* `if !self.requires_redraw.swap(true, ..)`: the call asks for a repaint
\* when the swap returned false.
NeedsRepaintAlways(old) == TRUE
NeedsRepaintNever(old) == FALSE
NeedsRepaint(old) == ~old

\* One whole request_redraw call made by the frame thread (map.redraw()).
\* st = [flag, repaint, reqs, fired]
RequestRedraw(st) ==
    [flag |-> TRUE,
     repaint |-> st.repaint \/ NeedsRepaint(st.flag),
     reqs |-> Sat(st.reqs + 1),
     fired |-> Sat(st.fired + (IF NeedsRepaint(st.flag) THEN 1 ELSE 0))]

\* Map::redraw forwards to the messenger installed by EguiMapState::new.
MapRedraw(st) == RequestRedraw(st)

\* n calls of map.redraw() in a row
RECURSIVE Redraws(_, _)
Redraws(n, st) == IF n = 0 THEN st ELSE Redraws(n - 1, MapRedraw(st))

\* A background thread: the atomic swap(true) ...
MsgSwap(t) ==
    /\ msgPc[t] = "idle"
    /\ requires_redraw' = TRUE
    /\ msgPc' = [msgPc EXCEPT ![t] = IF NeedsRepaint(requires_redraw) THEN "repaint" ELSE "idle"]
    /\ reqs' = Sat(reqs + 1)
    /\ UNCHANGED <<envVars, inputVars, overlay, forwarded, repeat, map_ready, gpuVars, map, dragging, repaintPending,
                   extPos, extRes, framePc, binderVars, measureVars, took,
                   fired, stale, cleared, loadedUnready, lastPass, emitted,
                   resized, takes, draws>>

\* ... and then context.request_repaint()
MsgRepaint(t) ==
    /\ msgPc[t] = "repaint"
    /\ repaintPending' = TRUE
    /\ msgPc' = [msgPc EXCEPT ![t] = "idle"]
    /\ fired' = IF t \in stale THEN fired ELSE Sat(fired + 1)
    /\ stale' = stale \ {t}
    /\ UNCHANGED <<envVars, inputVars, overlay, forwarded, repeat, requires_redraw, map_ready, gpuVars, map, dragging, extPos, extRes, framePc, binderVars, measureVars, took,
                   reqs, cleared, loadedUnready, lastPass, emitted, resized,
                   takes, draws>>

\* ---------------------------------------------------------------- EguiMap
with_position(m, position) ==
    IF m.position # position THEN [m EXCEPT !.position = position] ELSE m

with_resolution(m, resolution) ==
    IF m.resolution # resolution THEN [m EXCEPT !.resolution = resolution] ELSE m

\* EguiMap::new(..).with_position(..).with_resolution(..).show_ui(ui), up to
\* the measurements at the top of render.  p and r are the application's
\* values at the call; l and s are the host's ui.available_size().floor()
\* and ctx.pixels_per_point() in this frame.
ShowUiBegin(bp, br, p, r, l, s) ==
    /\ framePc = "idle"
    /\ PhysicalU32(l, s)[1] >= 1
    /\ PhysicalU32(l, s)[2] >= 1
    /\ SizeDiffers(PhysicalSize(l, s), rendererSize) => next_user_texture_id < MaxTextures
    /\ LET m1 == IF bp THEN with_position(map, p) ELSE map
           m2 == IF br THEN with_resolution(m1, r) ELSE m1
       IN map' = m2
    /\ extPos' = p
    /\ extRes' = r
    /\ bindPos' = bp
    /\ bindRes' = br
    /\ logical_size' = l
    /\ pixels_per_point' = s
    /\ repeat' = (resized /\ l = logical_size /\ s = pixels_per_point)
    /\ renderer_size' = rendererSize
    /\ repaintPending' = FALSE
    /\ framePc' = "input"
    /\ resized' = FALSE
    /\ takes' = 0
    /\ draws' = 0
    /\ UNCHANGED <<envVars, inputVars, overlay, requires_redraw, map_ready, gpuVars, dragging, took, msgPc, reqs, fired, stale, cleared, loadedUnready,
                   lastPass, emitted, forwarded>>

\* ------------------------------------------------------------ render
\* Lines 233-248: attributions and the translation of the host's events.
RenderInput(hovered, events, origin) ==
    /\ framePc = "input"
    /\ overlay' = AttributionOverlay(layers)
    /\ forwarded' = IF dragging \/ hovered
                    THEN process_events(events, <<-origin[1], -origin[2]>>)
                    ELSE <<>>
    /\ events_in' = events
    /\ origin_in' = origin
    /\ hovered_in' = hovered
    /\ framePc' = "update"
    /\ UNCHANGED <<envVars, requires_redraw, map_ready, gpuVars, map, dragging, repaintPending, extPos, extRes, bindPos, bindRes,
                   measureVars, took, msgPc, reqs, fired, stale, cleared,
                   loadedUnready, lastPass, emitted, resized, repeat, takes, draws>>

\* resize_map (lines 325-366) on the record g of the fields it touches.
resize_mapNoRedraw(g, logical, scale) ==
    [g EXCEPT !.mapSize = logical,
              !.rendererSize = PhysicalU32(logical, scale),
              !.registered = g.registered \cup {g.next},
              !.texture_id = g.next,
              !.texture_view = g.next,
              !.filter = FilterMode(scale),
              !.next = g.next + 1]

resize_map(g, logical, scale) ==
    [g EXCEPT !.mapSize = logical,
              !.rendererSize = PhysicalU32(logical, scale),
              !.registered = g.registered \cup {g.next},
              !.texture_id = g.next,
              !.texture_view = g.next,
              !.filter = FilterMode(scale),
              !.next = g.next + 1,
              !.st = MapRedraw(g.st)]

\* Lines 248-261: the event pipeline handles the forwarded events and
\* Map::animate steps the animation (either may move the view and call
\* map.redraw(); only the pipeline changes the drag state), then the resize
\* check and the gated load_layers.
RenderUpdate(pos, res, drag, n) ==
    /\ framePc = "update"
    /\ forwarded # <<>> \/ drag = dragging
    /\ dragging' = drag
    /\ LET physical_size == PhysicalSize(logical_size, pixels_per_point)
           differs == SizeDiffers(physical_size, renderer_size)
           g0 == [mapSize |-> map.size, rendererSize |-> rendererSize,
                  registered |-> registered, texture_id |-> texture_id,
                  texture_view |-> texture_view, next |-> next_user_texture_id,
                  filter |-> filter_mode,
                  st |-> Redraws(n, [flag |-> requires_redraw,
                                     repaint |-> repaintPending,
                                     reqs |-> reqs, fired |-> fired])]
           g == IF differs THEN resize_map(g0, logical_size, pixels_per_point) ELSE g0
       IN /\ map_ready' = (map_ready \/ differs)
          /\ resized' = differs
          /\ map' = [size |-> g.mapSize,
                     dpi |-> IF differs THEN pixels_per_point ELSE map.dpi,
                     position |-> pos, resolution |-> res]
          /\ rendererSize' = g.rendererSize
          /\ registered' = g.registered
          /\ texture_id' = g.texture_id
          /\ texture_view' = g.texture_view
          /\ filter_mode' = g.filter
          /\ next_user_texture_id' = g.next
          /\ requires_redraw' = g.st.flag
          /\ repaintPending' = g.st.repaint
          /\ reqs' = g.st.reqs
          /\ fired' = g.st.fired
          /\ UNCHANGED loadedUnready   \* load_layers runs only if map_ready
    /\ forwarded' = <<>>
    /\ events_in' = <<>>
    /\ origin_in' = <<0, 0>>
    /\ hovered_in' = FALSE
    /\ framePc' = "swap"
    /\ UNCHANGED <<envVars, overlay, extPos, extRes, binderVars, measureVars, repeat,
                   took, msgPc, stale, cleared, lastPass, emitted, takes, draws>>

\* Line 263: requires_redraw.swap(false), and the decision to draw.
ShouldDrawAlways(t) == TRUE
ShouldDraw(t) == t

RenderSwap ==
    /\ framePc = "swap"
    /\ took' = requires_redraw
    /\ requires_redraw' = FALSE
    /\ framePc' = IF ShouldDraw(requires_redraw) THEN "draw" ELSE "paint"
    /\ takes' = takes + 1
    /\ cleared' = TRUE
    /\ reqs' = 0
    /\ fired' = 0
    /\ stale' = {t \in Threads : msgPc[t] = "repaint"}
    /\ UNCHANGED <<envVars, inputVars, overlay, forwarded, repeat, map_ready, gpuVars, map, dragging, repaintPending,
                   extPos, extRes, binderVars, measureVars, msgPc,
                   loadedUnready, lastPass, emitted, resized, draws>>

\* draw (lines 368-373): load_layers, then one pass into self.texture_view.
RenderDraw ==
    /\ framePc = "draw"
    /\ loadedUnready' = (loadedUnready \/ ~map_ready)
    /\ lastPass' = texture_view
    /\ draws' = draws + 1
    /\ framePc' = "paint"
    /\ UNCHANGED <<envVars, inputVars, overlay, forwarded, repeat, requires_redraw, map_ready, gpuVars, map, dragging, repaintPending, extPos, extRes, binderVars, measureVars,
                   took, msgPc, reqs, fired, stale, cleared, emitted, resized,
                   takes>>

\* The capture at the end of show_ui (lines 126-135).
CaptureNothing(bound, external, view) == external
Capture(bound, external, view) == IF bound THEN view ELSE external

\* Lines 267-271 and the rest of show_ui.
RenderPaint ==
    /\ framePc = "paint"
    /\ emitted' = [id |-> texture_id, size |-> renderer_size]
    /\ repeat' = FALSE
    /\ extRes' = Capture(bindRes, extRes, map.resolution)
    /\ extPos' = IF map.position # NoPosition
                 THEN Capture(bindPos, extPos, map.position)
                 ELSE extPos
    /\ framePc' = "idle"
    /\ UNCHANGED <<envVars, inputVars, overlay, forwarded, requires_redraw, map_ready, gpuVars, map, dragging, repaintPending, binderVars, measureVars, took, msgPc, reqs,
                   fired, stale, cleared, loadedUnready, lastPass, resized,
                   takes, draws>>

\* ------------------------------------------------------- EguiMapState::new
\* The state after construction, for a host whose scale is among scales and
\* a map whose view is among positions x resolutions.
InitWith(scales, positions, resolutions) ==
    /\ filter_mode = "Nearest"
    /\ overlay = NoOverlay
    /\ events_in = <<>>
    /\ origin_in = <<0, 0>>
    /\ hovered_in = FALSE
    /\ requires_redraw = TRUE
    /\ map_ready = FALSE
    /\ texture_id = 0
    /\ texture_view = 0
    /\ rendererSize = <<1, 1>>
    /\ next_user_texture_id = 1
    /\ registered = {0}
    /\ pixels_per_point \in scales
    /\ map \in [size : {<<1, 1>>}, dpi : {pixels_per_point},
                position : positions, resolution : resolutions]
    /\ dragging = FALSE
    /\ repaintPending = TRUE
    /\ extPos \in positions \ {NoPosition}
    /\ extRes \in resolutions
    /\ framePc = "idle"
    /\ bindPos = FALSE
    /\ bindRes = FALSE
    /\ logical_size = <<1, 1>>
    /\ renderer_size = <<1, 1>>
    /\ took = FALSE
    /\ msgPc = [t \in Threads |-> "idle"]
    /\ reqs = 0
    /\ fired = 0
    /\ stale = {}
    /\ cleared = FALSE
    /\ loadedUnready = FALSE
    /\ lastPass = -1
    /\ emitted = NoImage
    /\ resized = FALSE
    /\ repeat = FALSE
    /\ takes = 0
    /\ draws = 0
    /\ forwarded = <<>>

\* The frame thread: one show_ui after another.
Frame(binds, positions, resolutions, sizes, scales, batches, origins) ==
    \/ \E bp \in binds, br \in binds, p \in positions, r \in resolutions,
          l \in sizes, s \in scales :
          ShowUiBegin(bp, br, p, r, l, s)
    \/ \E hovered \in BOOLEAN, events \in batches, origin \in origins :
          RenderInput(hovered, events, origin)
    \/ \E pos \in positions \cup {map.position},
          res \in resolutions \cup {map.resolution},
          drag \in BOOLEAN, n \in 0..1 :
          RenderUpdate(pos, res, drag, n)
    \/ RenderSwap
    \/ RenderDraw
    \/ RenderPaint

\* A native build of a map with one attributed layer.
NativeOneLayer == wasm32 = FALSE /\ layers = <<[text |-> "osm", url |-> "https://osm"]>>

\* The input of the specifications that are not about input.
FewBatches == {<<>>, <<PointerMovedEv(100, 50)>>}
OneOrigin == {<<0, 0>>}

\* The redraw scheduler: background threads request redraws while the frame
\* thread runs frames; the host's layout alternates between two sizes.
RedrawSizes == {<<1, 1>>, <<MaxSide, MaxSide>>}
RedrawScales == {OnePointZero}

Init == NativeOneLayer /\ InitWith(RedrawScales, {"A"}, {1})

Next ==
    \/ \E t \in Threads : MsgSwap(t)
    \/ \E t \in Threads : MsgRepaint(t)
    \/ Frame({FALSE}, {"A"}, {1}, RedrawSizes, RedrawScales, FewBatches, OneOrigin)

Spec == Init /\ [][Next]_vars

\* The texture bridge: the host's layout and scale vary from frame to frame;
\* only the frame thread runs.
InitSurface == NativeOneLayer /\ InitWith(Scales, {"A"}, {1})

NextSurface == Frame({FALSE}, {"A"}, {1}, LogicalSizes, Scales, FewBatches, OneOrigin)

SpecSurface == InitSurface /\ [][NextSurface]_vars

\* The view binder: the application binds its position and resolution, and
\* the pipeline moves the view; the host's layout and scale are fixed.
InitBinder ==
    NativeOneLayer /\ InitWith({OnePointZero}, Positions \cup {NoPosition}, Resolutions)

NextBinder ==
    Frame(BOOLEAN, Positions, Resolutions, {<<MaxSide, MaxSide>>}, {OnePointZero},
          FewBatches, OneOrigin)

SpecBinder == InitBinder /\ [][NextBinder]_vars

\* The filter policy: the scales of the filter test, at the smallest and the
\* largest layout.
FilterScales == {5000, 10000, 10001, 20000, 30000}

InitFilter == NativeOneLayer /\ InitWith(FilterScales, {"A"}, {1})

NextFilter ==
    Frame({FALSE}, {"A"}, {1}, RedrawSizes, FilterScales, FewBatches, OneOrigin)

SpecFilter == InitFilter /\ [][NextFilter]_vars

\* The input translator: both builds, every sample event alone and every
\* batch of host events, at two places of the widget in the window.
InputBatches == Batches \cup {<<e>> : e \in TableEvents}

InitInput ==
    /\ wasm32 \in BOOLEAN
    /\ layers = <<>>
    /\ InitWith({OnePointZero}, {"A"}, {1})

NextInput ==
    Frame({FALSE}, {"A"}, {1}, {<<MaxSide, MaxSide>>}, {OnePointZero},
          InputBatches, RectOrigins)

SpecInput == InitInput /\ [][NextInput]_vars

\* The attribution overlay: every map of up to MaxLayers layers.
InitOverlay ==
    /\ wasm32 = FALSE
    /\ layers \in SeqsUpTo(Attributions \cup {NoAttribution}, MaxLayers)
    /\ InitWith({OnePointZero}, {"A"}, {1})

NextOverlay ==
    Frame({FALSE}, {"A"}, {1}, {<<MaxSide, MaxSide>>}, {OnePointZero},
          FewBatches, OneOrigin)

SpecOverlay == InitOverlay /\ [][NextOverlay]_vars

\* The host runs a frame after construction and after every repaint request,
\* a frame that has begun runs to its end, and a thread that has swapped the
\* flag goes on to request the repaint.
FrameStep ==
    Frame({FALSE}, {"A"}, {1}, RedrawSizes, RedrawScales, FewBatches, OneOrigin)

HostFrame == repaintPending /\ framePc = "idle" /\ FrameStep
FrameRuns == framePc # "idle" /\ FrameStep

SpecLive ==
    /\ Init
    /\ [][Next]_vars
    /\ WF_vars(HostFrame)
    /\ WF_vars(FrameRuns)
    /\ \A t \in Threads : WF_vars(MsgRepaint(t))

\* ================================================================ claims
AllIdle == \A t \in Threads : msgPc[t] = "idle"
IsTake == framePc = "swap" /\ framePc' # "swap"
FrameDone == framePc = "idle" /\ emitted # NoImage

\* C1 as stated: after N >= 1 request_redraw calls with no take-and-clear in
\* between, the host repaint trigger has fired exactly once, from every
\* state including the freshly constructed one.
C1_FiresExactlyOnce == (reqs >= 1 /\ AllIdle) => fired = 1

\* C1 amended: after N >= 1 request_redraw calls with no take-and-clear in
\* between, the repaint trigger has fired exactly once if the flag was false
\* when the sequence began (a take-and-clear preceded it) and not at all if
\* it was true (the freshly constructed widget); the flag is then true, the
\* next take-and-clear returns true, and a take-and-clear that follows a
\* take-and-clear with no request in between returns false.
C1_Coalescing ==
    /\ []((reqs >= 1 /\ AllIdle) =>
              (requires_redraw /\ fired = (IF cleared THEN 1 ELSE 0)))
    /\ [][IsTake => /\ (reqs >= 1 => took')
                    /\ ((reqs = 0 /\ cleared) => ~took')]_vars

C1_Witness == cleared /\ reqs >= 2 /\ AllIdle /\ fired = 1 /\ requires_redraw

\* C2: map.load_layers is never invoked while map_ready is false.
C2_ReadyGating == ~loadedUnready

\* C3: a frame that measures the same logical size and scale as the frame
\* before it, which resized for them, registers no texture and keeps the
\* stored handle.
C3_ResizeIdempotence ==
    [][(framePc = "update" /\ repeat) =>
          /\ texture_id' = texture_id
          /\ registered' = registered
          /\ next_user_texture_id' = next_user_texture_id]_vars

\* C4: a request_redraw whose swap lands after the frame thread's clear
\* leaves the flag true and a wakeup owed (a repaint requested, about to be
\* requested, or a frame already on its way to the next clear); the next
\* take-and-clear returns true and that frame goes on to draw.
C4_NoLostWakeup ==
    /\ []((cleared /\ reqs >= 1) =>
              /\ requires_redraw
              /\ \/ repaintPending
                 \/ \E t \in Threads : msgPc[t] = "repaint"
                 \/ framePc \in {"input", "update", "swap"})
    /\ [][(IsTake /\ reqs >= 1) => (took' /\ framePc' = "draw")]_vars

C4_Witness ==
    /\ framePc = "draw"
    /\ requires_redraw
    /\ \E t \in Threads : msgPc[t] = "repaint" /\ t \notin stale

\* C5: the image painted by a frame carries the stored handle and the size
\* of the current render target.
C5_EmittedCurrent ==
    FrameDone => (emitted.id = texture_id /\ emitted.size = rendererSize)

\* C6: after every frame the map view's DPI scale factor is the scale the
\* host reported in that frame.
C6_DpiTracking == FrameDone => map.dpi = pixels_per_point

\* C7: a frame that resizes leaves the flag set by the resize, and performs
\* one pass into the new view before it paints the new handle; whenever
\* map_ready holds, the painted handle's texture has received a pass since
\* the last resize.
C7_PopulatedBeforeDisplayed ==
    /\ (framePc = "swap" /\ resized) => requires_redraw
    /\ (FrameDone /\ resized) => (draws = 1 /\ lastPass = texture_view)
    /\ (FrameDone /\ map_ready) =>
          (emitted.id = texture_id /\ lastPass = texture_view /\ lastPass = emitted.id)

C7_Witness ==
    /\ FrameDone
    /\ resized
    /\ texture_id = MaxTextures - 1
    /\ lastPass = texture_id
    /\ emitted.id = texture_id

\* C8: at most one handle created by this state is registered with the host
\* renderer at any time.
C8_SingleHandle == Cardinality(registered) <= 1

\* C9: a frame reads and clears the flag exactly once and performs at most
\* one pass, and a pass only if that read returned true.
C9_OneTakeOneDraw ==
    /\ takes <= 1
    /\ draws <= 1
    /\ framePc \in {"draw", "paint"} => takes = 1
    /\ FrameDone => takes = 1
    /\ framePc = "draw" => took
    /\ draws = 1 => took

C9_Witness ==
    /\ framePc = "paint"
    /\ takes = 1
    /\ draws = 1
    /\ requires_redraw
    /\ reqs >= 2

C11_FilterTested ==
    \A s \in FilterScales :
        (resized /\ pixels_per_point = s) =>
            filter_mode = (IF s <= OnePointZero THEN "Nearest" ELSE "Linear")

C11_Witness ==
    resized /\ pixels_per_point = 10001 /\ filter_mode = "Linear" /\ texture_id >= 1

\* C12 as stated: every resize registers nearest-neighbor filtering when the
\* scale is strictly below 1.0 and linear filtering at or above 1.0.
C12_LinearAtOrAbove ==
    resized =>
        filter_mode = (IF pixels_per_point < OnePointZero THEN "Nearest" ELSE "Linear")

\* C12 amended: every resize registers nearest-neighbor filtering when the
\* scale is below 1.0 or exactly 1.0, and linear filtering only when the
\* scale is strictly above 1.0.
C12_LinearOnlyAbove ==
    /\ (resized /\ pixels_per_point < OnePointZero) => filter_mode = "Nearest"
    /\ (resized /\ pixels_per_point = OnePointZero) => filter_mode = "Nearest"
    /\ (resized /\ pixels_per_point > OnePointZero) => filter_mode = "Linear"

C12_Witness ==
    resized /\ pixels_per_point = OnePointZero /\ filter_mode = "Nearest" /\ texture_id >= 1

\* The frame's input gate was open, and the host's batch was the one event e.
GateOpen == hovered_in \/ dragging
Translated == framePc = "update" /\ GateOpen /\ Len(events_in) = 1

ButtonTable ==
    [b \in {"Primary", "Secondary", "Middle", "Extra1", "Extra2"} |->
        IF b = "Primary" THEN "Left"
        ELSE IF b = "Secondary" THEN "Right"
        ELSE IF b = "Middle" THEN "Middle"
        ELSE "Other"]

\* C13: a pointer-button event translates to button-pressed/released with the
\* button of the table, a pointer-moved event to pointer-moved at host
\* position plus offset, every kind other than button, moved and wheel to
\* nothing; the translation changes no state of the widget.
C13_TranslationTable ==
    /\ [](Translated =>
            LET e == events_in[1]
            IN /\ e.kind = "PointerButton" =>
                    forwarded = <<[kind |-> IF e.pressed THEN "ButtonPressed"
                                            ELSE "ButtonReleased",
                                   button |-> ButtonTable[e.button],
                                   x |-> 0, y |-> 0]>>
               /\ e.kind = "PointerMoved" =>
                    forwarded = <<[kind |-> "PointerMoved", button |-> "none",
                                   x |-> e.x - origin_in[1],
                                   y |-> e.y - origin_in[2]]>>
               /\ e.kind \notin {"PointerButton", "PointerMoved", "MouseWheel"} =>
                    forwarded = <<>>)
    /\ [][(framePc = "input" /\ framePc' = "update") =>
              UNCHANGED <<map, dragging, requires_redraw, map_ready, gpuVars>>]_vars

C13_Witness ==
    /\ framePc = "update"
    /\ events_in = <<PointerMovedEv(100, 50)>>
    /\ origin_in = <<10, 10>>
    /\ forwarded = <<[kind |-> "PointerMoved", button |-> "none", x |-> 90, y |-> 40]>>

\* C14 as stated: a wheel event is discarded when the absolute value of its
\* vertical component is below 0.0001 and otherwise yields scroll with the
\* sign and magnitude of the vertical component.
C14_VerticalMagnitude ==
    (Translated /\ events_in[1].kind = "MouseWheel") =>
        forwarded =
            (IF Abs(events_in[1].y) < NoiseThreshold THEN <<>>
             ELSE <<[kind |-> "Scroll", button |-> "none", x |-> 0,
                     y |-> events_in[1].y * PointDivisor]>>)

\* C14 amended: a wheel event is translated from its vertical component
\* only. On a native build the zoom is that component; on a wasm32 build it
\* is that component divided by 120 (point units), 6 (line units) or 1 (page
\* units). The event is discarded, and never forwarded, when the absolute
\* value of the zoom is below 0.0001 and otherwise yields scroll(zoom).
WheelQuotient ==
    [u \in {"Point", "Line", "Page"} |->
        IF u = "Point" THEN 1 ELSE IF u = "Line" THEN 20 ELSE 120]

C14_ScrollNoise ==
    (Translated /\ events_in[1].kind = "MouseWheel") =>
        LET e == events_in[1]
            zoom == IF wasm32 THEN e.y * WheelQuotient[e.unit] ELSE e.y * 120
        IN forwarded =
            (IF Abs(zoom) < 1200 THEN <<>>
             ELSE <<[kind |-> "Scroll", button |-> "none", x |-> 0, y |-> zoom]>>)

C14_Witness ==
    /\ Translated
    /\ wasm32
    /\ events_in = <<MouseWheelUnitEv(0, 1000, "Point")>>
    /\ forwarded = <<>>

\* C15: a render pass is performed only when map_ready is true, and never
\* into the placeholder texture created at construction.
C15_NoPlaceholderPass == (draws >= 1 => map_ready) /\ lastPass # 0

\* C16: a request_redraw call leaves the flag true and goes on to request a
\* repaint exactly when the flag was false before its swap; of the calls
\* made on a flag that a take-and-clear left false, exactly one requests the
\* repaint, and of the calls made on the flag still true from construction,
\* none does.
NonStaleRepaints == {t \in Threads : msgPc[t] = "repaint" /\ t \notin stale}

C16_RepaintOnTransition ==
    /\ [][\A t \in Threads :
             MsgSwap(t) => /\ requires_redraw'
                           /\ (msgPc'[t] = "repaint") = ~requires_redraw]_vars
    /\ [][\A t \in Threads : MsgRepaint(t) => repaintPending']_vars
    /\ [](reqs >= 1 =>
             fired + Cardinality(NonStaleRepaints) = (IF cleared THEN 1 ELSE 0))

C16_Witness ==
    /\ cleared
    /\ reqs >= 2
    /\ fired = 0
    /\ Cardinality(NonStaleRepaints) = 1
    /\ \E t \in Threads : msgPc[t] = "idle"

\* C17: when neither dragging nor hovered, no event reaches the pipeline;
\* otherwise the pipeline receives the translations, with offset minus the
\* surface's top-left corner, of the events of the batch that translate,
\* each once and in batch order; and it receives them before the resize
\* check, the read-and-clear and the render pass of the frame.
C17_InputGating ==
    /\ (framePc = "update" /\ ~GateOpen) => forwarded = <<>>
    /\ (framePc = "update" /\ GateOpen) =>
          LET raw == [i \in 1..Len(events_in) |->
                         convert_event(events_in[i], <<-origin_in[1], -origin_in[2]>>)]
          IN forwarded = SelectSeq(raw, LAMBDA r : r # NoEvent)
    /\ forwarded # <<>> =>
          (framePc = "update" /\ ~resized /\ takes = 0 /\ draws = 0)

C17_Witness ==
    /\ framePc = "update"
    /\ origin_in = <<10, 10>>
    /\ Len(events_in) = 2
    /\ Len(forwarded) = 2
    /\ forwarded[1].kind = "PointerMoved"
    /\ forwarded[2].kind = "Scroll"

\* C18: the overlay is shown iff some layer has an attribution; its items are
\* the attributions in layer order with a delimiter between every two
\* consecutive entries, none before the first and none after the last.
C18_OverlayLayout ==
    framePc = "update" =>
        LET attrs == SelectSeq(layers, LAMBDA a : a # NoAttribution)
            n == Len(attrs)
        IN /\ overlay.shown = (n >= 1)
           /\ n >= 1 =>
                overlay.items =
                    [i \in 1..(2 * n - 1) |->
                        IF i % 2 = 1
                        THEN [kind |-> IF attrs[(i + 1) \div 2].url # "none"
                                       THEN "hyperlink" ELSE "label",
                              text |-> attrs[(i + 1) \div 2].text,
                              url |-> attrs[(i + 1) \div 2].url]
                        ELSE Delimiter]

\* C19: a frame whose measured physical size equals the render target's and
\* whose read of the flag returns false registers no texture, performs no
\* pass, leaves handle, view, map_ready and the flag as they were, and
\* paints the stored handle.
NoResize == ~SizeDiffers(PhysicalSize(logical_size, pixels_per_point), renderer_size)

C19_NoOpFrame ==
    /\ [][(framePc = "update" /\ framePc' = "swap" /\ NoResize) =>
              UNCHANGED <<gpuVars, map_ready>>]_vars
    /\ [][(IsTake /\ ~requires_redraw) =>
              (framePc' = "paint" /\ ~requires_redraw'
                 /\ UNCHANGED <<gpuVars, map_ready, lastPass, draws>>)]_vars
    /\ [][(framePc = "paint" /\ framePc' = "idle") =>
              (emitted'.id = texture_id
                 /\ UNCHANGED <<gpuVars, map_ready, lastPass, draws, requires_redraw>>)]_vars
    /\ []((FrameDone /\ ~resized /\ ~took) => (draws = 0 /\ emitted.id = texture_id))

C19_Witness ==
    /\ FrameDone
    /\ map_ready
    /\ ~resized
    /\ ~took
    /\ draws = 0
    /\ emitted.id = texture_id
    /\ lastPass = texture_view

\* C20: a redraw that is owed is eventually rendered: whenever the flag is
\* true, a frame eventually reads it as true and goes on to its render pass.
C20_EventuallyRendered == requires_redraw ~> (framePc = "draw")

C20_Witness == framePc = "swap" /\ cleared /\ reqs >= 2 /\ AllIdle /\ ~repaintPending

====
